---------------------------- MODULE Spec2Model ----------------------------
(***************************************************************************)
(* Model of the Modbus TCP client in src/unnamed/part_001: the frame codec *)
(* (Encode, Decode), the transaction verifier (Verify) and the transport   *)
(* session (Connect, Disconnect, Send, flush).                             *)
(*                                                                         *)
(* Byte slices are sequences of numbers 0..255.  Go indexes from 0 and     *)
(* TLA+ from 1: At(b, i) is Go's b[i].                                     *)
(***************************************************************************)
EXTENDS Integers, Sequences, FiniteSets, TLC

VARIABLES
    TransactionId,  \* ModbusTcpClient.TransactionId (uint16)
    SlaveId,        \* ModbusTcpClient.SlaveId (byte)
    Timeout,        \* ModbusTcpClient.Timeout, in milliseconds
    Conn,           \* ModbusTcpClient.Conn: NilConn or a connection handle
    open,           \* the handles dialed and not yet closed
    dials,          \* the number of connections dialed so far
    rx,             \* bytes the peer has sent on Conn that were not read yet
    nSends,         \* the number of Send calls so far
    sent,           \* the last two calls of Encode, newest last: the counter
                    \* before the call, the PDU given and the frame returned
                    \* (payload and frame packed)
                    \* (for the checksum accumulator: whether Reset was called
                    \* and the bytes pushed since)
    nEncodes,       \* the number of Encode calls so far
    input,          \* the arguments of the pure function under check
                    \* (frames packed)
    ret,            \* what the last call returned (a payload packed)
    crc,            \* CRC: the 16-bit state of the checksum accumulator
    sessions        \* the ModbusTcpClient values of a program that has
                    \* several: for each, its fields and the bytes unread on
                    \* its connection

vars == <<TransactionId, SlaveId, Timeout, Conn, open, dials, rx, nSends,
          sent, nEncodes, input, ret, crc, sessions>>

----------------------------------------------------------------------------
(* Program constants *)

HeaderSize == 7

MaxLength == 260

TimeoutMillis == 5000

TcpProtocolIdentifier == 0

(* Bounds of the model *)

MaxEncodes == 3

MaxDials == 2

MaxSends == 2

MaxRun == 65536

----------------------------------------------------------------------------
(* encoding/binary.BigEndian and slice helpers *)

NilConn == 0

At(b, i) == b[i + 1]

\* b[i:] of Go
From(b, i) == SubSeq(b, i + 1, Len(b))

\* binary.BigEndian.PutUint16: the two bytes written for v
PutUint16(v) == <<(v \div 256) % 256, v % 256>>

\* binary.BigEndian.Uint16(b[off:]), defined when len(b) >= off + 2
Uint16(b, off) == At(b, off) * 256 + At(b, off + 1)

\* whether binary.BigEndian.Uint16(b[off:]) panics: b[off:] needs
\* off <= len(b), and Uint16 reads two bytes of it
Uint16Panics(b, off) == Len(b) < off + 2

----------------------------------------------------------------------------
(* Byte slices in the state.  A slice of the codec is kept in the state as  *)
(* its runs of equal bytes, first run first: Unpack(Pack(s)) = s for every  *)
(* s, so nothing of the slice is lost, and a frame of 65542 bytes stays     *)
(* small.                                                                   *)

RECURSIVE RunsFrom(_, _, _)
\* the runs of s from index i on, i being the start of a run and starts the
\* starts of the runs after it
RunsFrom(s, starts, i) ==
    IF i > Len(s)
    THEN <<>>
    ELSE LET nxt == IF starts = {}
                    THEN Len(s) + 1
                    ELSE CHOOSE j \in starts : \A k \in starts : j <= k
         IN  <<[byte |-> s[i], count |-> nxt - i]>>
               \o RunsFrom(s, starts \ {nxt}, nxt)

\* (t ranges over the one value of s, so that s is evaluated once)
Pack(s) ==
    CHOOSE runs \in { RunsFrom(t, {i \in 2..Len(t) : t[i] # t[i - 1]}, 1) :
                       t \in {s} } : TRUE

RECURSIVE Unpack(_)
Unpack(runs) ==
    IF runs = <<>>
    THEN <<>>
    ELSE [i \in 1..runs[1].count |-> runs[1].byte] \o Unpack(Tail(runs))

----------------------------------------------------------------------------
(* Frame codec *)

\* A variant of Encode that writes the counter before incrementing it.
EncodeStaleId(tid, sid, pdu) ==
    LET n == Len(pdu.Data)
        length == (1 + 1 + n) % 65536
    IN  [TransactionId |-> (tid + 1) % 65536,
         adu |-> PutUint16(tid) \o PutUint16(TcpProtocolIdentifier)
                 \o PutUint16(length) \o <<sid>>
                 \o <<pdu.FunctionCode>> \o pdu.Data,
         err |-> "nil"]

\* A variant of Encode whose length field counts the payload and one byte.
EncodeShortLength(tid, sid, pdu) ==
    LET n == Len(pdu.Data)
        newTid == (tid + 1) % 65536
        length == (1 + n) % 65536
    IN  [TransactionId |-> newTid,
         adu |-> PutUint16(newTid) \o PutUint16(TcpProtocolIdentifier)
                 \o PutUint16(length) \o <<sid>>
                 \o <<pdu.FunctionCode>> \o pdu.Data,
         err |-> "nil"]

\* A variant of Encode that leaves the counter alone.
EncodeNoIncrement(tid, sid, pdu) ==
    LET n == Len(pdu.Data)
        length == (1 + 1 + n) % 65536
    IN  [TransactionId |-> tid,
         adu |-> PutUint16(tid) \o PutUint16(TcpProtocolIdentifier)
                 \o PutUint16(length) \o <<sid>>
                 \o <<pdu.FunctionCode>> \o pdu.Data,
         err |-> "nil"]

\* ModbusTcpClient.Encode on a session with counter tid and unit id sid:
\* the counter after the call, the frame and the error returned.  The frame
\* is the buffer of HeaderSize + 1 + len(pdu.Data) bytes after the writes:
\* offsets 0-1, 2-3, 4-5, 6, HeaderSize, and the copy from HeaderSize + 1.
Encode(tid, sid, pdu) ==
    LET n == Len(pdu.Data)
        newTid == (tid + 1) % 65536          \* c.TransactionId++ on a uint16
        length == (1 + 1 + n) % 65536        \* uint16(1 + 1 + len(pdu.Data))
    IN  [TransactionId |-> newTid,
         adu |-> PutUint16(newTid) \o PutUint16(TcpProtocolIdentifier)
                 \o PutUint16(length) \o <<sid>>
                 \o <<pdu.FunctionCode>> \o pdu.Data,
         err |-> "nil"]

\* A variant of Decode that keeps the function code in the payload.
DecodeKeepsCode(adu) ==
    IF Uint16Panics(adu, 4)
    THEN [status |-> "panic"]
    ELSE LET length == Uint16(adu, 4)
             pduLength == Len(adu) - HeaderSize
         IN  IF pduLength <= 0 \/ pduLength # (length - 1) % 65536
             THEN [status |-> "error"]
             ELSE [status |-> "ok",
                   FunctionCode |-> At(adu, HeaderSize),
                   Data |-> From(adu, HeaderSize)]

\* A variant of Decode that compares the PDU length with length - 2.
DecodeLengthOff(adu) ==
    IF Uint16Panics(adu, 4)
    THEN [status |-> "panic"]
    ELSE LET length == Uint16(adu, 4)
             pduLength == Len(adu) - HeaderSize
         IN  IF pduLength <= 0 \/ pduLength # (length - 2) % 65536
             THEN [status |-> "error"]
             ELSE [status |-> "ok",
                   FunctionCode |-> At(adu, HeaderSize),
                   Data |-> From(adu, HeaderSize + 1)]

\* ModbusTcpClient.Decode: "ok" with the PDU, "error" (the framing error
\* value) or "panic" (the index out of range of adu[4:] and Uint16).
Decode(adu) ==
    IF Uint16Panics(adu, 4)
    THEN [status |-> "panic"]
    ELSE LET length == Uint16(adu, 4)
             pduLength == Len(adu) - HeaderSize
         IN  \* int(length-1): the subtraction is done on a uint16
             IF pduLength <= 0 \/ pduLength # (length - 1) % 65536
             THEN [status |-> "error"]
             ELSE [status |-> "ok",
                   FunctionCode |-> At(adu, HeaderSize),
                   Data |-> From(adu, HeaderSize + 1)]

----------------------------------------------------------------------------
(* Transaction verifier *)

\* A variant of Verify that compares only the low byte of the protocol id.
VerifyLowByte(aduRequest, aduResponse) ==
    IF Uint16Panics(aduResponse, 0) \/ Uint16Panics(aduRequest, 0)
    THEN "panic"
    ELSE IF Uint16(aduResponse, 0) # Uint16(aduRequest, 0)
    THEN "transaction id"
    ELSE IF Uint16Panics(aduResponse, 2) \/ Uint16Panics(aduRequest, 2)
    THEN "panic"
    ELSE IF At(aduResponse, 3) # At(aduRequest, 3)
    THEN "protocol id"
    ELSE IF Len(aduResponse) < 7 \/ Len(aduRequest) < 7
    THEN "panic"
    ELSE IF At(aduResponse, 6) # At(aduRequest, 6)
    THEN "unit id"
    ELSE "nil"

\* ModbusTcpClient.Verify: "nil", the field the error names, or "panic"
\* when a frame is too short for the bytes read.
Verify(aduRequest, aduResponse) ==
    IF Uint16Panics(aduResponse, 0) \/ Uint16Panics(aduRequest, 0)
    THEN "panic"
    ELSE IF Uint16(aduResponse, 0) # Uint16(aduRequest, 0)
    THEN "transaction id"
    ELSE IF Uint16Panics(aduResponse, 2) \/ Uint16Panics(aduRequest, 2)
    THEN "panic"
    ELSE IF Uint16(aduResponse, 2) # Uint16(aduRequest, 2)
    THEN "protocol id"
    ELSE IF Len(aduResponse) < 7 \/ Len(aduRequest) < 7
    THEN "panic"
    ELSE IF At(aduResponse, 6) # At(aduRequest, 6)
    THEN "unit id"
    ELSE "nil"

----------------------------------------------------------------------------
(* Transport session.  The network is the environment: each call draws what *)
(* the dialer, the connection and the peer do.                              *)

\* ModbusTcpClient.Connect: the fields after the call and the error
\* returned; dialed is the handle dialer.Dial returned, NilConn with an error
Connect(timeout, dialed) ==
    [Timeout |-> IF timeout <= 0 THEN TimeoutMillis ELSE timeout,
     Conn |-> dialed,
     err |-> IF dialed = NilConn THEN "connect" ELSE "nil"]

\* ModbusTcpClient.Disconnect: the handle after the call, whether Close was
\* called, and the error returned; closeErr is whether Close reports an error
Disconnect(conn, closeErr) ==
    IF conn # NilConn
    THEN IF closeErr
         THEN [Conn |-> conn, closed |-> TRUE, err |-> "close"]
         ELSE [Conn |-> NilConn, closed |-> TRUE, err |-> "nil"]
    ELSE [Conn |-> conn, closed |-> FALSE, err |-> "nil"]

\* A variant of Send's deferred call that defers Disconnect on every call.
DeferredAlways(implicit, conn, closeErr) == Disconnect(conn, closeErr)

\* The deferred call of Send when it returns: c.Disconnect() when Send made
\* the connection itself (implicit), nothing when the session held conn
\* before the call
Deferred(implicit, conn, closeErr) ==
    IF implicit
    THEN Disconnect(conn, closeErr)
    ELSE [Conn |-> conn, closed |-> FALSE, err |-> "nil"]

\* ModbusTcpClient.flush on the unread bytes rest: the bytes left and the
\* calls made.  The read has an expired deadline and does not wait: it takes
\* at most e.drained of the bytes that are there, none when there is none.
flush(rest, e) ==
    IF e.flushErr
    THEN [rest |-> rest, log |-> <<"SetReadDeadline">>]
    ELSE LET n == IF e.drained < Len(rest) THEN e.drained ELSE Len(rest)
         IN  [rest |-> SubSeq(rest, n + 1, Len(rest)),
              log |-> <<"SetReadDeadline", "Read">>]

\* the result of Send when it returns err before the response is complete
Failed(err, header, rest, log, wrote) ==
    [err |-> err, response |-> <<>>, header |-> header, rest |-> rest,
     log |-> log, wrote |-> wrote]

\* A variant of the exchange that rejects a declared length of 254 too.
ExchangeRejects254(request, isOpen, unread, e) ==
    IF ~isOpen \/ e.fail = "deadline"
    THEN Failed("deadline", <<>>, unread, <<"SetDeadline">>, <<>>)
    ELSE IF e.fail = "write"
    THEN Failed("write", <<>>, unread, <<"SetDeadline", "Write">>, <<>>)
    ELSE
    LET in == unread \o e.reply
        log == <<"SetDeadline", "Write", "ReadFull">>
    IN  IF Len(in) < HeaderSize
        THEN Failed("read", <<>>, <<>>, log, request)
        ELSE
        LET data == SubSeq(in, 1, HeaderSize)
            body == SubSeq(in, HeaderSize + 1, Len(in))
            length == Uint16(data, 4)
            f == flush(body, e)
        IN  IF length <= 0
            THEN Failed("framing", data, f.rest, log \o f.log, request)
            ELSE IF length >= (MaxLength - (HeaderSize - 1))
            THEN Failed("framing", data, f.rest, log \o f.log, request)
            ELSE
            LET total == length + HeaderSize - 1
            IN  IF Len(in) < total
                THEN Failed("read", data, <<>>, Append(log, "ReadFull"),
                            request)
                ELSE [err |-> "nil",
                      response |-> SubSeq(in, 1, total),
                      header |-> data,
                      rest |-> SubSeq(in, total + 1, Len(in)),
                      log |-> Append(log, "ReadFull"),
                      wrote |-> request]

\* A variant of the exchange that rejects a declared length of 1 too.
ExchangeRejects1(request, isOpen, unread, e) ==
    IF ~isOpen \/ e.fail = "deadline"
    THEN Failed("deadline", <<>>, unread, <<"SetDeadline">>, <<>>)
    ELSE IF e.fail = "write"
    THEN Failed("write", <<>>, unread, <<"SetDeadline", "Write">>, <<>>)
    ELSE
    LET in == unread \o e.reply
        log == <<"SetDeadline", "Write", "ReadFull">>
    IN  IF Len(in) < HeaderSize
        THEN Failed("read", <<>>, <<>>, log, request)
        ELSE
        LET data == SubSeq(in, 1, HeaderSize)
            body == SubSeq(in, HeaderSize + 1, Len(in))
            length == Uint16(data, 4)
            f == flush(body, e)
        IN  IF length <= 1
            THEN Failed("framing", data, f.rest, log \o f.log, request)
            ELSE IF length > (MaxLength - (HeaderSize - 1))
            THEN Failed("framing", data, f.rest, log \o f.log, request)
            ELSE
            LET total == length + HeaderSize - 1
            IN  IF Len(in) < total
                THEN Failed("read", data, <<>>, Append(log, "ReadFull"),
                            request)
                ELSE [err |-> "nil",
                      response |-> SubSeq(in, 1, total),
                      header |-> data,
                      rest |-> SubSeq(in, total + 1, Len(in)),
                      log |-> Append(log, "ReadFull"),
                      wrote |-> request]

\* A variant of the exchange that reads length bytes after the header.
ExchangeReadsLength(request, isOpen, unread, e) ==
    IF ~isOpen \/ e.fail = "deadline"
    THEN Failed("deadline", <<>>, unread, <<"SetDeadline">>, <<>>)
    ELSE IF e.fail = "write"
    THEN Failed("write", <<>>, unread, <<"SetDeadline", "Write">>, <<>>)
    ELSE
    LET in == unread \o e.reply
        log == <<"SetDeadline", "Write", "ReadFull">>
    IN  IF Len(in) < HeaderSize
        THEN Failed("read", <<>>, <<>>, log, request)
        ELSE
        LET data == SubSeq(in, 1, HeaderSize)
            body == SubSeq(in, HeaderSize + 1, Len(in))
            length == Uint16(data, 4)
            f == flush(body, e)
        IN  IF length <= 0
            THEN Failed("framing", data, f.rest, log \o f.log, request)
            ELSE IF length > (MaxLength - (HeaderSize - 1))
            THEN Failed("framing", data, f.rest, log \o f.log, request)
            ELSE
            LET total == length + HeaderSize
            IN  IF Len(in) < total
                THEN Failed("read", data, <<>>, Append(log, "ReadFull"),
                            request)
                ELSE [err |-> "nil",
                      response |-> SubSeq(in, 1, total),
                      header |-> data,
                      rest |-> SubSeq(in, total + 1, Len(in)),
                      log |-> Append(log, "ReadFull"),
                      wrote |-> request]

\* ModbusTcpClient.Send from SetDeadline on (lines 261-291), on a connection
\* with the bytes unread not read yet: the error and the response returned,
\* the header read, the bytes left unread, the calls made on the connection
\* and the bytes written.  e is what the environment does: e.fail makes
\* SetDeadline or Write return an error, e.reply is what the peer sends once
\* the request is written.  ReadFull fails (deadline or EOF) when fewer bytes
\* than asked for arrive, and has then consumed them.
Exchange(request, isOpen, unread, e) ==
    IF ~isOpen \/ e.fail = "deadline"
    THEN Failed("deadline", <<>>, unread, <<"SetDeadline">>, <<>>)
    ELSE IF e.fail = "write"
    THEN Failed("write", <<>>, unread, <<"SetDeadline", "Write">>, <<>>)
    ELSE
    LET in == unread \o e.reply
        log == <<"SetDeadline", "Write", "ReadFull">>
    IN  IF Len(in) < HeaderSize
        THEN Failed("read", <<>>, <<>>, log, request)
        ELSE
        LET data == SubSeq(in, 1, HeaderSize)
            body == SubSeq(in, HeaderSize + 1, Len(in))
            length == Uint16(data, 4)
            f == flush(body, e)
        IN  IF length <= 0
            THEN Failed("framing", data, f.rest, log \o f.log, request)
            ELSE IF length > (MaxLength - (HeaderSize - 1))
            THEN Failed("framing", data, f.rest, log \o f.log, request)
            ELSE
            \* Skip unit id: length += HeaderSize - 1
            LET total == length + HeaderSize - 1
            IN  IF Len(in) < total
                THEN Failed("read", data, <<>>, Append(log, "ReadFull"),
                            request)
                ELSE [err |-> "nil",
                      response |-> SubSeq(in, 1, total),
                      header |-> data,
                      rest |-> SubSeq(in, total + 1, Len(in)),
                      log |-> Append(log, "ReadFull"),
                      wrote |-> request]

------------------------------------------------------------\* ModbusTcpClient.Send on a session with the fields timeout and conn, the
\* bytes unread on its connection, the open connections opened, and next the
\* handle a dial would return: the fields, the unread bytes and the open
\* connections after the call, whether it dialed, and what it returned.  The
\* implicit Connect when the session holds no handle, the exchange, and the
\* deferred Disconnect of an implicit connection, whose error is dropped.
Send(timeout, conn, unread, opened, next, request, e, dialOk, closeFails) ==
    LET implicit == conn = NilConn
        c == Connect(timeout, IF dialOk THEN next ELSE NilConn)
    IN  IF implicit /\ c.err # "nil"
        THEN [Timeout |-> c.Timeout, Conn |-> c.Conn, rx |-> unread,
              open |-> opened, dialed |-> FALSE,
              ret |-> [op |-> "Send", implicit |-> TRUE, err |-> c.err,
                       response |-> <<>>, header |-> <<>>,
                       log |-> <<"Dial">>, wrote |-> <<>>, was |-> conn]]
        ELSE LET cn == IF implicit THEN c.Conn ELSE conn
                 isOpen == implicit \/ cn \in opened
                 x == Exchange(request, isOpen,
                               IF implicit THEN <<>> ELSE unread, e)
                 d == Deferred(implicit, cn, closeFails)
             IN  [Timeout |-> IF implicit THEN c.Timeout ELSE timeout,
                  Conn |-> d.Conn,
                  rx |-> IF d.closed THEN <<>> ELSE x.rest,
                  open |-> IF d.closed THEN opened \ {cn}
                           ELSE IF implicit THEN opened \cup {cn}
                           ELSE opened,
                  dialed |-> implicit,
                  ret |-> [op |-> "Send", implicit |-> implicit,
                           err |-> x.err, response |-> x.response,
                           header |-> x.header,
                           log |-> (IF implicit THEN <<"Dial">> ELSE <<>>)
                                   \o x.log
                                   \o (IF d.closed THEN <<"Close">>
                                       ELSE <<>>),
                           wrote |-> x.wrote, was |-> conn]]

----------------
(* Inputs *)

\* A payload of n bytes that starts 1, 2, 3 and ends 255
Pattern(n) ==
    <<>> \o [i \in 1..n |-> IF i <= 3 THEN i ELSE IF i = n THEN 255 ELSE 0]

\* The PDUs handed to Encode on a session: empty and short payloads, the
\* longest payload of a 260-byte frame (252) and the next one
Pdus ==
    { [FunctionCode |-> 3, Data |-> <<>>],
      [FunctionCode |-> 3, Data |-> <<0, 1>>],
      [FunctionCode |-> 255, Data |-> <<255>>],
      [FunctionCode |-> 16, Data |-> Pattern(252)],
      [FunctionCode |-> 129, Data |-> Pattern(253)] }

\* The payloads around the largest whose length field fits 16 bits (65533)
LongPdus ==
    { [FunctionCode |-> 3, Data |-> Pattern(65533)],
      [FunctionCode |-> 16, Data |-> Pattern(65534)],
      [FunctionCode |-> 255, Data |-> Pattern(65535)] }

\* The counter values a session starts from: before the carry from the low
\* byte into the high byte, and before the end of the 16-bit range
StartIds == {255, 65534}

\* The counter values Encode is applied to as a function
EncodeIds == {0, 255, 256, 65534, 65535}

SlaveIds == {1, 255}

NoRet == [op |-> "none"]

NoInput == <<>>

NoSessions == <<>>

\* what Decode returned, its payload packed
PackPdu(r) == IF r.status = "ok" THEN [r EXCEPT !.Data = Pack(@)] ELSE r

\* the last n elements of s
Newest(s, n) == IF Len(s) <= n THEN s ELSE SubSeq(s, Len(s) - n + 1, Len(s))

----------------------------------------------------------------------------
(* The codec on one session: calls of Encode, Decode of a frame that Encode *)
(* returned, Verify of two frames that Encode returned.                     *)

InitCodec ==
    /\ TransactionId \in StartIds
    /\ SlaveId \in SlaveIds
    /\ Timeout = 0
    /\ Conn = NilConn
    /\ open = {}
    /\ dials = 0
    /\ rx = <<>>
    /\ nSends = 0
    /\ sent = <<>>
    /\ nEncodes = 0
    /\ input = NoInput
    /\ ret = NoRet
    /\ crc = 0
    /\ sessions = NoSessions

\* A call of Encode on the session with the PDU pdu
EncodeStep(pdu) ==
    LET r == Encode(TransactionId, SlaveId, pdu)
    IN  /\ TransactionId' = r.TransactionId
        /\ sent' = Newest(Append(sent,
                           [before |-> TransactionId,
                            pdu |-> [pdu EXCEPT !.Data = Pack(@)],
                            adu |-> Pack(r.adu)]), 2)
        /\ ret' = [op |-> "Encode", err |-> r.err]
        /\ nEncodes' = nEncodes + 1
        /\ UNCHANGED <<SlaveId, Timeout, Conn, open, dials, rx, nSends,
                       input, crc, sessions>>

EncodeCall ==
    /\ nEncodes < MaxEncodes
    /\ \E pdu \in Pdus : EncodeStep(pdu)

DecodeSent ==
    /\ sent # <<>>
    /\ ret' = [op |-> "Decode",
               pdu |-> PackPdu(Decode(Unpack(sent[Len(sent)].adu)))]
    /\ UNCHANGED <<TransactionId, SlaveId, Timeout, Conn, open, dials, rx,
                   nSends, sent, nEncodes, input, crc, sessions>>

VerifySent ==
    /\ \E i, j \in 1..Len(sent) :
         ret' = [op |-> "Verify", request |-> i, response |-> j,
                 err |-> Verify(Unpack(sent[i].adu), Unpack(sent[j].adu))]
    /\ UNCHANGED <<TransactionId, SlaveId, Timeout, Conn, open, dials, rx,
                   nSends, sent, nEncodes, input, crc, sessions>>

NextCodec == EncodeCall \/ DecodeSent \/ VerifySent

SpecCodec == InitCodec /\ [][NextCodec]_vars

----------------------------------------------------------------------------
(* A run of Encode calls on one session, long enough for the counter to     *)
(* come back to the value it started from, which input keeps.               *)

InitRun ==
    /\ TransactionId \in {0, 40000}
    /\ SlaveId = 1
    /\ Timeout = 0
    /\ Conn = NilConn
    /\ open = {}
    /\ dials = 0
    /\ rx = <<>>
    /\ nSends = 0
    /\ sent = <<>>
    /\ nEncodes = 0
    /\ input = TransactionId
    /\ ret = NoRet
    /\ crc = 0
    /\ sessions = NoSessions

EncodeRun ==
    /\ nEncodes < MaxRun
    /\ EncodeStep([FunctionCode |-> 3, Data |-> <<>>])

NextRun == EncodeRun

SpecRun == InitRun /\ [][NextRun]_vars

----------------------------------------------------------------------------
(* Encode as a function of the session's fields and the PDU: they are drawn *)
(* at the start, one call encodes the PDU.                                  *)

InitEncode ==
    /\ TransactionId \in EncodeIds
    /\ SlaveId \in SlaveIds
    /\ Timeout = 0
    /\ Conn = NilConn
    /\ open = {}
    /\ dials = 0
    /\ rx = <<>>
    /\ nSends = 0
    /\ sent = <<>>
    /\ nEncodes = 0
    /\ input \in { [pdu EXCEPT !.Data = Pack(@)] : pdu \in Pdus \cup LongPdus }
    /\ ret = NoRet
    /\ crc = 0
    /\ sessions = NoSessions

EncodeInput ==
    /\ nEncodes = 0
    /\ LET r == Encode(TransactionId, SlaveId,
                       [input EXCEPT !.Data = Unpack(@)])
       IN  /\ TransactionId' = r.TransactionId
           /\ ret' = [op |-> "Encode", before |-> TransactionId,
                      err |-> r.err, adu |-> Pack(r.adu)]
    /\ nEncodes' = 1
    /\ UNCHANGED <<SlaveId, Timeout, Conn, open, dials, rx, nSends, sent,
                   input, crc, sessions>>

NextEncode == EncodeInput

SpecEncode == InitEncode /\ [][NextEncode]_vars

----------------------------------------------------------------------------
(* Decode as a function of the frame: the frame is drawn at the start, one  *)
(* call decodes it.                                                         *)

MaxFrameLen == 12

\* A header with transaction id 1, protocol id 0, length field lf, unit id 1
\* and a PDU of function code 3 with following bytes, cut to len bytes
FrameOf(len, lf) ==
    SubSeq(<<0, 1, 0, 0>> \o PutUint16(lf) \o <<1, 3>>
             \o [i \in 1..MaxFrameLen |-> i], 1, len)

\* Frames of every length from 0 with length fields below, at and above the
\* frame's size, and the frame of 65542 zero bytes, whose field 0 makes
\* uint16(length-1) equal its PDU length 65535
DecodeFrames ==
    { FrameOf(len, lf) : len \in 0..MaxFrameLen,
                         lf \in (0..(MaxFrameLen - 5)) \cup {258, 65535} }
      \cup { <<>> \o [i \in 1..65542 |-> 0] }

PackedDecodeFrames == { Pack(f) : f \in DecodeFrames }


InitDecode ==
    /\ TransactionId = 0
    /\ SlaveId = 1
    /\ Timeout = 0
    /\ Conn = NilConn
    /\ open = {}
    /\ dials = 0
    /\ rx = <<>>
    /\ nSends = 0
    /\ sent = <<>>
    /\ nEncodes = 0
    /\ input \in PackedDecodeFrames
    /\ ret = NoRet
    /\ crc = 0
    /\ sessions = NoSessions

DecodeCall ==
    /\ ret.op = "none"
    /\ ret' = [op |-> "Decode", pdu |-> PackPdu(Decode(Unpack(input)))]
    /\ UNCHANGED <<TransactionId, SlaveId, Timeout, Conn, open, dials, rx,
                   nSends, sent, nEncodes, input, crc, sessions>>

NextDecode == DecodeCall

SpecDecode == InitDecode /\ [][NextDecode]_vars

----------------------------------------------------------------------------
(* Verify as a function of the two frames: the frames are drawn at the      *)
(* start, one call verifies them.                                           *)

\* Frames that differ in each header field (in the high or the low byte of
\* the 16-bit ones) and in the PDU
VerifyFrames ==
    { PutUint16(tid) \o PutUint16(pid) \o PutUint16(lf) \o <<uid>> \o pdu :
        tid \in {0, 1, 256}, pid \in {0, 1, 256}, lf \in {2, 3},
        uid \in {1, 2}, pdu \in {<<>>, <<3>>, <<4, 9>>} }
      \cup { SubSeq(<<0, 1, 0, 0, 0, 2, 1>>, 1, len) : len \in 0..6 }

PackedVerifyPairs ==
    { <<Pack(f), Pack(g)>> : f \in VerifyFrames, g \in VerifyFrames }

InitVerify ==
    /\ TransactionId = 0
    /\ SlaveId = 1
    /\ Timeout = 0
    /\ Conn = NilConn
    /\ open = {}
    /\ dials = 0
    /\ rx = <<>>
    /\ nSends = 0
    /\ sent = <<>>
    /\ nEncodes = 0
    /\ input \in PackedVerifyPairs
    /\ ret = NoRet
    /\ crc = 0
    /\ sessions = NoSessions

VerifyCall ==
    /\ ret.op = "none"
    /\ ret' = [op |-> "Verify",
               err |-> Verify(Unpack(input[1]), Unpack(input[2]))]
    /\ UNCHANGED <<TransactionId, SlaveId, Timeout, Conn, open, dials, rx,
                   nSends, sent, nEncodes, input, crc, sessions>>

NextVerify == VerifyCall

SpecVerify == InitVerify /\ [][NextVerify]_vars

----------------------------------------------------------------------------
(* The transport session: calls of Connect, Disconnect and Send in any      *)
(* order.                                                                   *)

\* a response header with transaction id 1, protocol id 0, the length field
\* lf and unit id 1, followed by body
Reply(lf, body) == <<0, 1, 0, 0>> \o PutUint16(lf) \o <<1>> \o body

\* n bytes of a response PDU: function code 3, then the bytes 1, 2, ...
Body(n) == <<>> \o [i \in 1..n |-> IF i = 1 THEN 3 ELSE (i - 1) % 256]

\* What the peer sends after a request: nothing, a cut header, headers that
\* declare 0, 1, 2, 3, 254 (the largest accepted), 255 and 65535 bytes, with
\* the body complete, cut short, or followed by further bytes
Replies ==
    { <<>>,
      <<0, 1, 0>>,
      Reply(0, <<>>),
      Reply(0, Body(2)),
      Reply(1, <<>>),
      Reply(2, Body(1)),
      Reply(3, Body(2)),
      Reply(3, Body(1)),
      Reply(2, Body(1)) \o Reply(2, Body(1)),
      Reply(254, Body(253)),
      Reply(254, Body(252)),
      Reply(255, Body(254)),
      Reply(65535, Body(3)) }

Requests == { <<0, 1, 0, 0, 0, 2, 1, 3>>, <<0, 2, 0, 0, 0, 4, 1, 16, 0, 9>> }

\* What the connection and the peer do during one Send: SetDeadline or
\* Write fails, or the peer replies; flush's SetReadDeadline fails, or its
\* Read takes none, one or all (up to the buffer's MaxLength) of the bytes
Envs ==
    [fail : {"deadline", "write"}, reply : {<<>>}, flushErr : {FALSE},
     drained : {0}]
      \cup [fail : {"none"}, reply : Replies, flushErr : {TRUE},
            drained : {0}]
      \cup [fail : {"none"}, reply : Replies, flushErr : {FALSE},
            drained : {0, 1, MaxLength}]

Init ==
    /\ TransactionId = 0
    /\ SlaveId = 1
    /\ Timeout \in {0, 100}
    /\ Conn = NilConn
    /\ open = {}
    /\ dials = 0
    /\ rx = <<>>
    /\ nSends = 0
    /\ sent = <<>>
    /\ nEncodes = 0
    /\ input = NoInput
    /\ ret = NoRet
    /\ crc = 0
    /\ sessions = NoSessions

\* Connect: dialer.Dial returns a new handle or an error
ConnectCall ==
    /\ dials < MaxDials
    /\ \E dialOk \in BOOLEAN :
         LET c == Connect(Timeout, IF dialOk THEN dials + 1 ELSE NilConn)
         IN  /\ Timeout' = c.Timeout
             /\ Conn' = c.Conn
             /\ open' = IF dialOk THEN open \cup {dials + 1} ELSE open
             /\ dials' = IF dialOk THEN dials + 1 ELSE dials
             /\ ret' = [op |-> "Connect", err |-> c.err, was |-> Conn]
    /\ rx' = <<>>
    /\ UNCHANGED <<TransactionId, SlaveId, nSends, sent, nEncodes, input,
                   crc, sessions>>

\* Disconnect: Close reports an error when the handle was closed before, and
\* may report one otherwise; the handle is closed after it either way
DisconnectCall ==
    /\ \E closeFails \in BOOLEAN :
         LET d == Disconnect(Conn, closeFails \/ Conn \notin open)
         IN  /\ Conn' = d.Conn
             /\ open' = IF d.closed THEN open \ {Conn} ELSE open
             /\ rx' = IF d.closed THEN <<>> ELSE rx
             /\ ret' = [op |-> "Disconnect", err |-> d.err, was |-> Conn]
    /\ UNCHANGED <<TransactionId, SlaveId, Timeout, dials, nSends, sent,
                   nEncodes, input, crc, sessions>>

\* Send on the session: what the dialer, the connection and the peer do is
\* drawn
SendCall ==
    /\ nSends < MaxSends
    /\ Conn = NilConn => dials < MaxDials
    /\ \E request \in Requests, e \in Envs,
          dialOk, closeFails \in IF Conn = NilConn THEN BOOLEAN ELSE {FALSE} :
         LET r == Send(Timeout, Conn, rx, open, dials + 1, request, e,
                       dialOk, closeFails)
         IN  /\ Timeout' = r.Timeout
             /\ Conn' = r.Conn
             /\ open' = r.open
             /\ dials' = IF r.dialed THEN dials + 1 ELSE dials
             /\ rx' = r.rx
             /\ ret' = r.ret
    /\ nSends' = nSends + 1
    /\ UNCHANGED <<TransactionId, SlaveId, sent, nEncodes, input, crc,
                   sessions>>

\* Decode of the frame that the last Send returned
DecodeResponse ==
    /\ ret.op = "Send"
    /\ ret.err = "nil"
    /\ ret' = [op |-> "Decode", frame |-> ret.response,
               pdu |-> Decode(ret.response)]
    /\ UNCHANGED <<TransactionId, SlaveId, Timeout, Conn, open, dials, rx,
                   nSends, sent, nEncodes, input, crc, sessions>>

Next == ConnectCall \/ DisconnectCall \/ SendCall \/ DecodeResponse

Spec == Init /\ [][Next]_vars

----------------------------------------------------------------------------
(* Properties of the codec and the verifier *)

Last == sent[Len(sent)]

\* the frame and the payload of the i-th call kept in sent
Adu(i) == Unpack(sent[i].adu)

Data(i) == Unpack(sent[i].pdu.Data)

LastAdu == Adu(Len(sent))

LastData == Data(Len(sent))

\* the frame, or the two frames, drawn as the argument
Frame == Unpack(input)

Request == Unpack(input[1])

Response == Unpack(input[2])

\* C1: Decode applied to the frame Encode returned for a payload of 0 to 252
\* bytes succeeds and returns the function code and the payload given to
\* Encode, whatever the session's TransactionId and SlaveId.
C1_RoundTrip ==
    (ret.op = "Decode" /\ Len(LastData) <= 252) =>
        /\ ret.pdu.status = "ok"
        /\ ret.pdu.FunctionCode = Last.pdu.FunctionCode
        /\ Unpack(ret.pdu.Data) = LastData

C1_Witness ==
    /\ ret.op = "Decode"
    /\ Len(LastData) = 252
    /\ ret.pdu.status = "ok"
    /\ Unpack(ret.pdu.Data) = LastData

\* C2: every Encode call leaves the counter at its value before the call
\* plus 1 modulo 65536 (65535 wraps to 0) and writes that value into the
\* frame; the ids of consecutive frames differ by 1 modulo 65536, and the id
\* of the first frame does not come back within 65536 consecutive frames.
C2_TransactionIdIncrements ==
    /\ \A i \in 1..Len(sent) :
         Uint16(Adu(i), 0) = (sent[i].before + 1) % 65536
    /\ sent # <<>> => TransactionId = Uint16(LastAdu, 0)
    /\ Len(sent) = 2 =>
         /\ sent[2].before = Uint16(Adu(1), 0)
         /\ Uint16(Adu(2), 0) = (Uint16(Adu(1), 0) + 1) % 65536
         /\ Uint16(Adu(2), 0) # Uint16(Adu(1), 0)
    \* the frame after nEncodes calls and the first frame, of id input + 1
    /\ (nEncodes >= 2 /\ nEncodes <= 65536) =>
         Uint16(LastAdu, 0) # (input + 1) % 65536

\* after 65536 calls, which took the counter from 65535 to 0 on the way, the
\* counter is back at the value it started from and the frame's id is still
\* not the first frame's
C2_Witness ==
    /\ nEncodes = 65536
    /\ input = 40000
    /\ TransactionId = input
    /\ Uint16(LastAdu, 0) = 40000
    /\ sent[2].before = 39999

\* C3 as stated: the frames of two Encode calls on one session with no Encode
\* call between them carry the same transaction id and pass Verify.
C3_Original ==
    (ret.op = "Verify" /\ ret.request = 1 /\ ret.response = 2) =>
        /\ Uint16(Adu(1), 0) = Uint16(Adu(2), 0)
        /\ ret.err = "nil"

\* C3 as amended: the frames of two consecutive Encode calls on one session
\* carry different transaction ids and Verify of one against the other fails
\* naming the transaction id; Verify passes a frame of Encode against itself.
C3_ConsecutiveFramesFailVerify ==
    ret.op = "Verify" =>
        /\ ret.request # ret.response =>
             /\ Uint16(Adu(ret.request), 0)
                  # Uint16(Adu(ret.response), 0)
             /\ ret.err = "transaction id"
        /\ ret.request = ret.response => ret.err = "nil"

C3_Witness ==
    /\ ret.op = "Verify"
    /\ ret.request = 1
    /\ ret.response = 2
    /\ At(Adu(1), 6) = At(Adu(2), 6)
    /\ ret.err = "transaction id"

\* C4: for two frames of at least 7 bytes Verify returns an error exactly
\* when bytes 0-1, bytes 2-3 or byte 6 differ, naming the first field that
\* differs in that order; no other byte of either frame matters.
C4_VerifyFields ==
    (ret.op = "Verify" /\ Len(Request) >= 7 /\ Len(Response) >= 7) =>
        LET req == Request
            resp == Response
        IN  ret.err =
              IF req[1] # resp[1] \/ req[2] # resp[2] THEN "transaction id"
              ELSE IF req[3] # resp[3] \/ req[4] # resp[4] THEN "protocol id"
              ELSE IF req[7] # resp[7] THEN "unit id"
              ELSE "nil"

\* the protocol id differs in its high byte only and the unit id differs too
C4_Witness ==
    /\ ret.op = "Verify"
    /\ Len(Request) >= 7 /\ Len(Response) >= 7
    /\ Request[3] # Response[3] /\ Request[4] = Response[4]
    /\ Request[7] # Response[7]
    /\ ret.err = "protocol id"

\* C5 as stated: Decode returns the framing error for every frame shorter
\* than 8 bytes.
C5_Original ==
    (ret.op = "Decode" /\ Len(Frame) < 8) => ret.pdu.status = "error"

\* C6 as stated: Decode accepts a frame exactly when its length field equals
\* len(frame) - HeaderSize - 1.
C6_Original ==
    (ret.op = "Decode" /\ Len(Frame) >= 6) =>
        (ret.pdu.status = "ok"
           <=> Frame[5] * 256 + Frame[6] = Len(Frame) - HeaderSize - 1)

\* C6 as amended: Decode accepts a frame exactly when the frame has at least
\* 8 bytes and its length field equals len(frame) - 6, or its length field is
\* 0 and the frame has 65542 bytes; it returns a PDU for no other frame.
C6_LengthCheck ==
    ret.op = "Decode" =>
        (ret.pdu.status = "ok"
           <=> /\ Len(Frame) >= 8
               /\ \/ Frame[5] * 256 + Frame[6] = Len(Frame) - 6
                  \/ Frame[5] * 256 + Frame[6] = 0 /\ Len(Frame) = 65542)

C6_Witness ==
    /\ ret.op = "Decode"
    /\ Len(Frame) = 9
    /\ Frame[5] * 256 + Frame[6] = 3
    /\ ret.pdu.status = "ok"
    /\ Unpack(ret.pdu.Data) = <<Frame[9]>>

\* the payload given to Encode and the frame it returned
GivenData == Unpack(input.Data)

Returned == Unpack(ret.adu)

\* what C7 says of every byte but the length field
LayoutButLength ==
    ret.op = "Encode" =>
        /\ Len(Returned) = 8 + Len(GivenData)
        /\ TransactionId = (ret.before + 1) % 65536
        /\ Returned[1] = TransactionId \div 256
        /\ Returned[2] = TransactionId % 256
        /\ Returned[3] = 0 /\ Returned[4] = 0
        /\ Returned[7] = SlaveId
        /\ Returned[8] = input.FunctionCode
        /\ SubSeq(Returned, 9, Len(Returned)) = GivenData
        /\ ret.err = "nil"

----------------------------------------------------------------------------
(* Properties of the transport session *)

\* the length field of the header Send read
Declared == ret.header[5] * 256 + ret.header[6]

\* the number of calls of ReadFull that Send made
ReadFulls == Cardinality({i \in 1..Len(ret.log) : ret.log[i] = "ReadFull"})

\* C8: once Send has written the request and read the 7 header bytes, it
\* returns the framing error exactly when the declared length is 0 or above
\* 254, and then it has made no ReadFull after the header's: the only read
\* after it is flush's, made under an expired deadline.
C8_SendFraming ==
    (ret.op = "Send" /\ Len(ret.header) = HeaderSize) =>
        /\ ret.err = "framing" <=> (Declared = 0 \/ Declared > 254)
        /\ ret.err = "framing" =>
             /\ ReadFulls = 1
             /\ ret.response = <<>>
             /\ \A i \in 1..Len(ret.log) :
                  ret.log[i] = "Read" =>
                      i > 1 /\ ret.log[i - 1] = "SetReadDeadline"

\* a header declaring 255 is refused and its body is left unread
C8_Witness ==
    /\ ret.op = "Send"
    /\ Len(ret.header) = HeaderSize
    /\ Declared = 255
    /\ ret.err = "framing"
    /\ ReadFulls = 1
    /\ ~ret.implicit
    /\ Len(rx) = 254

\* C9 as stated: when Send was called on a session that held no handle, the
\* session holds no handle when Send returns, on every exit path.
C9_Original ==
    (ret.op = "Send" /\ ret.implicit) => Conn = NilConn

\* C10 as stated: after Disconnect returns the session holds no handle.
C10_Original ==
    ret.op = "Disconnect" => Conn = NilConn

\* C11 as stated: a Connect from a session that holds no handle either
\* returns no error and leaves the session holding the open handle dialed, or
\* returns the connection error and leaves it holding none; and after every
\* call the session holds a handle exactly when the last connect attempt
\* succeeded and no Disconnect has completed since: after Connect when it
\* returned no error, never after Disconnect or after a Send that connected
\* by itself, and after any other call when it held one before.
C11_Original ==
    [][/\ (ret'.op = "Connect" /\ Conn = NilConn) =>
              \/ ret'.err = "nil" /\ Conn' # NilConn /\ Conn' \in open'
              \/ ret'.err = "connect" /\ Conn' = NilConn
       /\ Conn' # NilConn <=>
              CASE ret'.op = "Connect" -> ret'.err = "nil"
                [] ret'.op = "Disconnect" -> FALSE
                [] ret'.op = "Send" /\ ret'.implicit -> FALSE
                [] OTHER -> Conn # NilConn]_vars

----------------------------------------------------------------------------
(* Error mapper *)

ExcIllegalFunction == 1

ExcIllegalDataAdr == 2

ExcIllegalDataVal == 3

ExcSlaveDeviceFailure == 4

ExcAcknowledge == 5

ExcSlaveIsBusy == 6

ExcGatePathUnavailable == 10

\* The error values, each by the message errors.New gave it
ErrorIllegalFunction == "Illegal Function"

ErrorIllegalDataAddress == "Illegal Data Address"

ErrorIllegalDataValue == "Illegal Data Value"

ErrorSlaveDeviceFailure == "Slave Device Failure"

ErrorAcknowledge == "Acknowledge"

ErrorSlaveIsBusy == "The Slave is Busy"

ErrorGatewayPathUnavailable == "The gateway path is unavailable"

ErrorUnknown == "unknown error occured"

\* A variant of FailureCodeToError that looks at the low byte of the code.
FailureCodeToErrorByte(errorCode) ==
    LET b == errorCode % 256
    IN  CASE b = ExcIllegalFunction -> ErrorIllegalFunction
          [] b = ExcIllegalDataAdr -> ErrorIllegalDataAddress
          [] b = ExcIllegalDataVal -> ErrorIllegalDataValue
          [] b = ExcSlaveDeviceFailure -> ErrorSlaveDeviceFailure
          [] b = ExcAcknowledge -> ErrorAcknowledge
          [] b = ExcSlaveIsBusy -> ErrorSlaveIsBusy
          [] b = ExcGatePathUnavailable -> ErrorGatewayPathUnavailable
          [] OTHER -> ErrorUnknown

\* FailureCodeToError: the switch on the int errorCode
FailureCodeToError(errorCode) ==
    CASE errorCode = ExcIllegalFunction -> ErrorIllegalFunction
      [] errorCode = ExcIllegalDataAdr -> ErrorIllegalDataAddress
      [] errorCode = ExcIllegalDataVal -> ErrorIllegalDataValue
      [] errorCode = ExcSlaveDeviceFailure -> ErrorSlaveDeviceFailure
      [] errorCode = ExcAcknowledge -> ErrorAcknowledge
      [] errorCode = ExcSlaveIsBusy -> ErrorSlaveIsBusy
      [] errorCode = ExcGatePathUnavailable -> ErrorGatewayPathUnavailable
      [] OTHER -> ErrorUnknown

(* FailureCodeToError as a function of the code: the code is drawn at the   *)
(* start, one call maps it.                                                 *)

MaxCode == 300

\* Every code from -MaxCode to MaxCode, and codes far from the table that
\* agree with a table entry in their low 8 or 16 bits
ErrorCodes ==
    (-MaxCode..MaxCode)
      \cup {65537, 65546, 16777218, 2147483647, -65535, -2147483647}

InitErrors ==
    /\ TransactionId \in StartIds
    /\ SlaveId = 1
    /\ Timeout = 0
    /\ Conn = NilConn
    /\ open = {}
    /\ dials = 0
    /\ rx = <<>>
    /\ nSends = 0
    /\ sent = <<>>
    /\ nEncodes = 0
    /\ input \in ErrorCodes
    /\ ret = NoRet
    /\ crc = 0
    /\ sessions = NoSessions

FailureCodeToErrorCall ==
    /\ ret.op = "none"
    /\ ret' = [op |-> "FailureCodeToError", err |-> FailureCodeToError(input)]
    /\ UNCHANGED <<TransactionId, SlaveId, Timeout, Conn, open, dials, rx,
                   nSends, sent, nEncodes, input, crc, sessions>>

NextErrors == FailureCodeToErrorCall

SpecErrors == InitErrors /\ [][NextErrors]_vars

\* the codes of the table, and the error C12 gives for each
TableCodes == {1, 2, 3, 4, 5, 6, 10}

TableError(code) ==
    CASE code = 1 -> "Illegal Function"
      [] code = 2 -> "Illegal Data Address"
      [] code = 3 -> "Illegal Data Value"
      [] code = 4 -> "Slave Device Failure"
      [] code = 5 -> "Acknowledge"
      [] code = 6 -> "The Slave is Busy"
      [] code = 10 -> "The gateway path is unavailable"

\* C12: FailureCodeToError returns, for the codes 1, 2, 3, 4, 5, 6 and 10,
\* the illegal-function, illegal-data-address, illegal-data-value,
\* slave-device-failure, acknowledge, slave-busy and gateway-path-unavailable
\* errors, seven different values; for every other code, negative ones
\* included, the one unknown-exception error, which is none of the seven; it
\* never returns nil, and the call changes no field of the session.
C12_FailureCodeToError ==
    /\ ret.op = "FailureCodeToError" =>
         /\ input \in TableCodes => ret.err = TableError(input)
         /\ input \notin TableCodes => ret.err = "unknown error occured"
         /\ ret.err # "nil"
         /\ \A code \in TableCodes :
              /\ ret.err = TableError(code) => input = code
              /\ TableError(code) # "unknown error occured"
         /\ TransactionId \in StartIds /\ Conn = NilConn
    /\ Cardinality({TableError(code) : code \in TableCodes}) = 7

\* a code that agrees with the table's 2 in its low byte maps to the unknown
\* error
C12_Witness ==
    /\ ret.op = "FailureCodeToError"
    /\ input = 258
    /\ ret.err = "unknown error occured"

----------------------------------------------------------------------------
(* Checksum engine.  The CRC type is used by src/modbusprotocol_test.go and *)
(* is not among the sources: it is modelled from sections 4.1 and 8 of the  *)
(* specification.                                                           *)

\* the seed 0xFFFF
CRCSeed == 65535

\* the polynomial 0xA001
CRCPoly == 40961

RECURSIVE Xor(_, _)
\* the bitwise exclusive or of two naturals
Xor(a, b) ==
    IF a = 0 THEN b
    ELSE IF b = 0 THEN a
    ELSE ((a + b) % 2) + 2 * Xor(a \div 2, b \div 2)

\* one round: shift right by 1, and XOR with 0xA001 when the low bit was set
Round(state) ==
    IF state % 2 = 1 THEN Xor(state \div 2, CRCPoly) ELSE state \div 2

\* XOR the byte into the low 8 bits of the state, then 8 rounds
PushByte(state, b) ==
    Round(Round(Round(Round(Round(Round(Round(Round(Xor(state, b)))))))))

RECURSIVE PushBytes(_, _)
\* pushBytes: each byte folded into the state, first byte first
PushBytes(state, bytes) ==
    IF bytes = <<>>
    THEN state
    ELSE PushBytes(PushByte(state, Head(bytes)), Tail(bytes))

(* The accumulator: Reset, PushBytes of the next bytes of input, Value.    *)

MaxBytes == 3

CrcBytes == {0, 2, 7, 255}

ByteSeqs == UNION { [1..n -> CrcBytes] : n \in 0..MaxBytes }

InitCRC ==
    /\ TransactionId = 0
    /\ SlaveId = 1
    /\ Timeout = 0
    /\ Conn = NilConn
    /\ open = {}
    /\ dials = 0
    /\ rx = <<>>
    /\ nSends = 0
    /\ sent = [reset |-> FALSE, pushed |-> <<>>]
    /\ nEncodes = 0
    /\ input \in ByteSeqs
    /\ ret = NoRet
    /\ crc = 0
    /\ sessions = NoSessions

\* reset(): the state is the seed
Reset ==
    /\ crc' = CRCSeed
    /\ sent' = [reset |-> TRUE, pushed |-> <<>>]
    /\ ret' = [op |-> "Reset"]
    /\ UNCHANGED <<TransactionId, SlaveId, Timeout, Conn, open, dials, rx,
                   nSends, nEncodes, input, sessions>>

\* pushBytes(bytes) with the next k bytes of input
PushBytesCall ==
    /\ \E k \in 1..Len(input) :
         /\ crc' = PushBytes(crc, SubSeq(input, 1, k))
         /\ sent' = [sent EXCEPT !.pushed = @ \o SubSeq(input, 1, k)]
         /\ input' = SubSeq(input, k + 1, Len(input))
    /\ ret' = [op |-> "PushBytes"]
    /\ UNCHANGED <<TransactionId, SlaveId, Timeout, Conn, open, dials, rx,
                   nSends, nEncodes, sessions>>

\* value(): the current state
Value ==
    /\ ret' = [op |-> "Value", value |-> crc]
    /\ UNCHANGED <<TransactionId, SlaveId, Timeout, Conn, open, dials, rx,
                   nSends, sent, nEncodes, input, crc, sessions>>

NextCRC == Reset \/ PushBytesCall \/ Value

SpecCRC == InitCRC /\ [][NextCRC]_vars

\* C13 as stated: after Reset and the bytes 0x02 then 0x07 pushed with the
\* reduction of section 4.1, Value returns 0x4112.
C13_Original ==
    (ret.op = "Value" /\ sent.reset /\ sent.pushed = <<2, 7>>) =>
        ret.value = 16658

----------------------------------------------------------------------------
(* The size of the frames of Encode *)

\* C14 as stated: every frame Encode returns has at most MaxLength (260)
\* bytes and a length field equal to its size minus 6, whatever the payload.
C14_Original ==
    ret.op = "Encode" =>
        /\ Len(Returned) <= MaxLength
        /\ Returned[5] * 256 + Returned[6] = Len(Returned) - 6

----------------------------------------------------------------------------
(* Send on a connection of the caller *)

\* the calls Send made on the network, by name
Called(name) == \E i \in 1..Len(ret.log) : ret.log[i] = name

\* C15: a Send called on a session that holds a handle neither dials nor
\* closes: when it returns, with or without an error, the session holds the
\* same handle and the set of open connections is the same.
C15_SendKeepsConnection ==
    [][(ret'.op = "Send" /\ Conn # NilConn) =>
           /\ Conn' = Conn
           /\ open' = open
           /\ dials' = dials
           /\ ~ret'.implicit
           /\ \A i \in 1..Len(ret'.log) :
                ret'.log[i] \notin {"Dial", "Close"}]_vars

\* the Send before the last returned the framing error and the last a read
\* error, both on the open connection the caller made
C15_Witness ==
    /\ ret.op = "Send"
    /\ ~ret.implicit
    /\ nSends = 2
    /\ ret.err = "read"
    /\ Called("Write")
    /\ Conn = ret.was
    /\ Conn \in open

\* C16 as stated: once a Send on a connection of the caller has returned the
\* framing error, no byte of the refused response is left unread, and a Send
\* that follows on the same connection reads as its header the first 7 bytes
\* of what the peer sends next.
C16_Original ==
    [][(ret.op = "Send" /\ ~ret.implicit /\ ret.err = "framing") =>
           /\ rx = <<>>
           /\ (ret'.op = "Send" /\ Conn' = Conn
                 /\ Len(ret'.header) = HeaderSize) =>
                  \E r \in Replies :
                      /\ Len(r) >= HeaderSize
                      /\ ret'.header = SubSeq(r, 1, HeaderSize)]_vars

\* a frame whose length field is between 1 and 254 and equals its size
\* minus 6
WellFormed(r) ==
    /\ Len(r) >= HeaderSize
    /\ r[5] * 256 + r[6] \in 1..254
    /\ Len(r) = 6 + r[5] * 256 + r[6]

\* C17: a Send that returns no error has written the whole request before
\* its first read and has made two reads, of the 7 header bytes and of the
\* L - 1 bytes after them, L being the length the header declares, between 1
\* and 254; it returns those 6 + L bytes, between 7 and 260, which are the
\* first bytes of the stream, and leaves every byte after them unread; so on
\* a connection of the caller with nothing unread, a peer's answer of one
\* well-formed frame is returned whole and nothing is unread after it.
C17_SendReadsOneFrame ==
    [][(ret'.op = "Send" /\ ret'.err = "nil") =>
           LET resp == ret'.response
               L == ret'.header[5] * 256 + ret'.header[6]
           IN  /\ ret'.wrote \in Requests
               /\ ret'.log = (IF Conn = NilConn THEN <<"Dial">> ELSE <<>>)
                     \o <<"SetDeadline", "Write", "ReadFull", "ReadFull">>
                     \o (IF Conn = NilConn THEN <<"Close">> ELSE <<>>)
               /\ L \in 1..254
               /\ Len(resp) = 6 + L
               /\ Len(resp) \in 7..260
               /\ ret'.header = SubSeq(resp, 1, HeaderSize)
               /\ Conn = NilConn =>
                    \E r \in Replies :
                        /\ Len(r) >= Len(resp)
                        /\ SubSeq(r, 1, Len(resp)) = resp
               /\ Conn # NilConn =>
                    /\ \E r \in Replies : rx \o r = resp \o rx'
                    /\ \A r \in Replies :
                         (rx = <<>> /\ WellFormed(r) /\ r = resp \o rx') =>
                             (resp = r /\ rx' = <<>>)]_vars

\* the second Send on a connection returns the second frame of two that the
\* peer sent in answer to the first
C17_Witness ==
    /\ ret.op = "Send"
    /\ ret.err = "nil"
    /\ ~ret.implicit
    /\ nSends = 2
    /\ ret.response = Reply(2, Body(1))
    /\ rx = Reply(2, Body(1)) \o Reply(2, Body(1))

----------------------------------------------------------------------------
(* Several sessions: each ModbusTcpClient value has its own fields, and the *)
(* calls on the sessions interleave in any order.  The network (the open    *)
(* connections and the handles dialed) is the one thing they share.         *)

Sessions == {1, 2}

\* a session that makes no call: the session of FailureCodeToError, which is
\* a function of the package
NoSession == 0

SessionPdus ==
    { [FunctionCode |-> 3, Data |-> <<>>],
      [FunctionCode |-> 16, Data |-> <<0, 1>>] }

SessionFrames == { <<0, 1, 0, 0, 0, 2, 1, 3>>, <<0, 0, 0, 0, 0, 5, 2>> }

SessionRequest == <<0, 1, 0, 0, 0, 2, 1, 3>>

SessionCodes == {2, 77}

\* during a Send: SetDeadline fails, the peer's reply is a frame, or its
\* reply declares length 0 and two bytes follow that flush leaves
SessionEnvs ==
    { [fail |-> "deadline", reply |-> <<>>, flushErr |-> FALSE, drained |-> 0],
      [fail |-> "none", reply |-> Reply(2, Body(1)), flushErr |-> FALSE,
       drained |-> 0],
      [fail |-> "none", reply |-> Reply(0, Body(2)), flushErr |-> FALSE,
       drained |-> 0] }

InitSessions ==
    /\ TransactionId = 0
    /\ SlaveId = 1
    /\ Timeout = 0
    /\ Conn = NilConn
    /\ open = {}
    /\ dials = 0
    /\ rx = <<>>
    /\ nSends = 0
    /\ sent = <<>>
    /\ nEncodes = 0
    /\ input = NoInput
    /\ ret = NoRet
    /\ crc = 0
    /\ sessions = [s \in Sessions |->
                      [TransactionId |-> 65535, SlaveId |-> s, Timeout |-> 0,
                       Conn |-> NilConn, rx |-> <<>>]]

\* A variant of EncodeOn for a counter that all sessions share.
EncodeOnShared(s) ==
    /\ nEncodes < MaxEncodes
    /\ \E pdu \in SessionPdus :
         LET r == Encode(sessions[s].TransactionId, sessions[s].SlaveId, pdu)
         IN  /\ sessions' = [t \in Sessions |->
                               [sessions[t] EXCEPT
                                  !.TransactionId = r.TransactionId]]
             /\ ret' = [op |-> "Encode", session |-> s]
    /\ nEncodes' = nEncodes + 1
    /\ UNCHANGED <<TransactionId, SlaveId, Timeout, Conn, open, dials, rx,
                   nSends, sent, input, crc>>

\* Encode on the session s
EncodeOn(s) ==
    /\ nEncodes < MaxEncodes
    /\ \E pdu \in SessionPdus :
         LET r == Encode(sessions[s].TransactionId, sessions[s].SlaveId, pdu)
         IN  /\ sessions' = [sessions EXCEPT
                               ![s].TransactionId = r.TransactionId]
             /\ ret' = [op |-> "Encode", session |-> s]
    /\ nEncodes' = nEncodes + 1
    /\ UNCHANGED <<TransactionId, SlaveId, Timeout, Conn, open, dials, rx,
                   nSends, sent, input, crc>>

\* Decode on the session s: the method reads and writes no field
DecodeOn(s) ==
    /\ \E adu \in SessionFrames :
         /\ Decode(adu).status \in {"ok", "error"}
         /\ ret' = [op |-> "Decode", session |-> s]
    /\ UNCHANGED <<TransactionId, SlaveId, Timeout, Conn, open, dials, rx,
                   nSends, sent, nEncodes, input, crc, sessions>>

\* Verify on the session s: the method reads and writes no field
VerifyOn(s) ==
    /\ \E aduResponse \in SessionFrames :
         /\ Verify(SessionRequest, aduResponse) \in {"nil", "unit id"}
         /\ ret' = [op |-> "Verify", session |-> s]
    /\ UNCHANGED <<TransactionId, SlaveId, Timeout, Conn, open, dials, rx,
                   nSends, sent, nEncodes, input, crc, sessions>>

\* Connect on the session s
ConnectOn(s) ==
    /\ dials < MaxDials
    /\ \E dialOk \in BOOLEAN :
         LET c == Connect(sessions[s].Timeout,
                          IF dialOk THEN dials + 1 ELSE NilConn)
         IN  /\ sessions' = [sessions EXCEPT ![s].Timeout = c.Timeout,
                                             ![s].Conn = c.Conn,
                                             ![s].rx = <<>>]
             /\ open' = IF dialOk THEN open \cup {dials + 1} ELSE open
             /\ dials' = IF dialOk THEN dials + 1 ELSE dials
             /\ ret' = [op |-> "Connect", session |-> s]
    /\ UNCHANGED <<TransactionId, SlaveId, Timeout, Conn, rx, nSends, sent,
                   nEncodes, input, crc>>

\* Disconnect on the session s
DisconnectOn(s) ==
    /\ \E closeFails \in BOOLEAN :
         LET conn == sessions[s].Conn
             d == Disconnect(conn, closeFails \/ conn \notin open)
         IN  /\ sessions' = [sessions EXCEPT
                               ![s].Conn = d.Conn,
                               ![s].rx = IF d.closed THEN <<>> ELSE @]
             /\ open' = IF d.closed THEN open \ {conn} ELSE open
             /\ ret' = [op |-> "Disconnect", session |-> s]
    /\ UNCHANGED <<TransactionId, SlaveId, Timeout, Conn, dials, rx, nSends,
                   sent, nEncodes, input, crc>>

\* Send on the session s
SendOn(s) ==
    /\ nSends < MaxSends
    /\ sessions[s].Conn = NilConn => dials < MaxDials
    /\ \E e \in SessionEnvs,
          dialOk, closeFails \in IF sessions[s].Conn = NilConn THEN BOOLEAN
                                 ELSE {FALSE} :
         LET r == Send(sessions[s].Timeout, sessions[s].Conn, sessions[s].rx,
                       open, dials + 1, SessionRequest, e, dialOk,
                       closeFails)
         IN  /\ sessions' = [sessions EXCEPT ![s].Timeout = r.Timeout,
                                             ![s].Conn = r.Conn,
                                             ![s].rx = r.rx]
             /\ open' = r.open
             /\ dials' = IF r.dialed THEN dials + 1 ELSE dials
             /\ ret' = [op |-> "Send", session |-> s]
    /\ nSends' = nSends + 1
    /\ UNCHANGED <<TransactionId, SlaveId, Timeout, Conn, rx, sent, nEncodes,
                   input, crc>>

\* FailureCodeToError, which takes no session
FailureCodeToErrorAny ==
    /\ \E errorCode \in SessionCodes :
         /\ FailureCodeToError(errorCode) # "nil"
         /\ ret' = [op |-> "FailureCodeToError", session |-> NoSession]
    /\ UNCHANGED <<TransactionId, SlaveId, Timeout, Conn, open, dials, rx,
                   nSends, sent, nEncodes, input, crc, sessions>>

NextSessions ==
    \/ \E s \in Sessions : EncodeOn(s)
    \/ \E s \in Sessions : DecodeOn(s)
    \/ \E s \in Sessions : VerifyOn(s)
    \/ \E s \in Sessions : ConnectOn(s)
    \/ \E s \in Sessions : DisconnectOn(s)
    \/ \E s \in Sessions : SendOn(s)
    \/ FailureCodeToErrorAny

SpecSessions == InitSessions /\ [][NextSessions]_vars

\* C18: a step changes the transaction counter of a session only when it is
\* a call of Encode on that session, so no call of Decode, Verify, Connect,
\* Disconnect, Send or FailureCodeToError changes a counter; and a call on
\* one session leaves the counter, the unit id and the handle of every other
\* session as they were, in every interleaving of the calls.
C18_SessionsIndependent ==
    [][\A s \in Sessions :
           /\ sessions'[s].TransactionId # sessions[s].TransactionId =>
                  /\ ret'.op = "Encode"
                  /\ ret'.session = s
                  /\ sessions'[s].TransactionId
                       = (sessions[s].TransactionId + 1) % 65536
           /\ ret'.session # s =>
                  /\ sessions'[s].TransactionId = sessions[s].TransactionId
                  /\ sessions'[s].SlaveId = sessions[s].SlaveId
                  /\ sessions'[s].Conn = sessions[s].Conn]_vars

\* both sessions hold a connection of their own, the counter of session 1
\* has wrapped to 0 and the counter of session 2 has not moved, after a Send
\* on session 2
C18_Witness ==
    /\ ret.op = "Send"
    /\ ret.session = 2
    /\ sessions[1].Conn # NilConn
    /\ sessions[2].Conn # NilConn
    /\ sessions[1].Conn # sessions[2].Conn
    /\ sessions[1].TransactionId = 0
    /\ sessions[2].TransactionId = 65535
    /\ sessions[1].SlaveId # sessions[2].SlaveId
    /\ nEncodes = 1

----------------------------------------------------------------------------
(* The framing of Send and the framing of Decode *)

\* C19: a frame that Send returns without error has its declared length plus
\* 6 bytes; a header that declares 1 makes Send return the 7 header bytes
\* without error; Decode of a frame that Send returned accepts it exactly when
\* its declared length is at least 2, and returns the framing error for the
\* 7-byte frame that declares 1.
C19_SendDecodeFraming ==
    /\ (ret.op = "Send" /\ ret.err = "nil") =>
           Len(ret.response) = Declared + 6
    /\ (ret.op = "Send" /\ Len(ret.header) = HeaderSize /\ Declared = 1) =>
           /\ ret.err = "nil"
           /\ ret.response = ret.header
    /\ ret.op = "Decode" =>
           LET L == ret.frame[5] * 256 + ret.frame[6]
           IN  /\ Len(ret.frame) = L + 6
               /\ ret.pdu.status = "ok" <=> L >= 2
               /\ L < 2 => (L = 1 /\ Len(ret.frame) = 7
                              /\ ret.pdu.status = "error")

\* Decode has refused the 7 bytes that Send returned for a declared length
\* of 1
C19_Witness ==
    /\ ret.op = "Decode"
    /\ ret.frame = Reply(1, <<>>)
    /\ ret.pdu.status = "error"

----------------------------------------------------------------------------
(* The connections of a session *)

\* C20 as stated: after every call the only connection that may be open is
\* the one the session holds; a handle that Connect opened is closed before
\* the session's handle is overwritten or cleared.
C20_Original ==
    /\ Cardinality(open) <= 1
    /\ \A h \in open : h = Conn

============================================================================
